---------------------------- MODULE Spec2Model ----------------------------
(***************************************************************************)
(* A model of the web100 userland library (src/util/gui/web100.c) and of   *)
(* its process-correlation helper (src/util/gui/connection_info.c).        *)
(*                                                                         *)
(* Three subsystems are modelled, each with a specification of its own:    *)
(*   Spec        the Connection Catalog (refresh_connections and the three *)
(*               accessors that call it) and snapshots taken against it;   *)
(*   SpecInfo    the correlation query (connection_info_head / _find /     *)
(*               _refresh) with its three sources and the join;            *)
(*   SpecAttach  the header parse of _web100_agent_attach_local, its       *)
(*               cleanup through web100_detach, and group enumeration.     *)
(*                                                                         *)
(* Linked lists are sequences, head first.  Memory the code reads without  *)
(* having written it (malloc'ed blocks are never zeroed by the library) is *)
(* a value chosen by the environment.                                      *)
(***************************************************************************)
EXTENDS Integers, Sequences, FiniteSets, TLC

VARIABLES
    \* ---- environment: the instrumentation root directory ----
    dir,              \* entries of WEB100_ROOT_DIR in readdir order
    rootOpen,         \* whether opendir(WEB100_ROOT_DIR) succeeds
    \* ---- the agent's Connection Catalog ----
    connection_head,  \* agent->info.local.connection_head, as a sequence
    headState,        \* "zero"/"junk": never assigned (malloc bytes); "set"
    web100_errno,     \* the library's global last-error cell
    conn_ret,         \* what the last catalog accessor returned: <<>> is NULL
    lastOp,           \* the last catalog accessor called: its arguments, its
                      \* error, whether it freed any Connection, and whether the
                      \* list it left equals the one it found
    \* ---- a caller-held snapshot ----
    snap,             \* <<>>, or <<the web100_snapshot structure>>
    snapReadFreed,    \* web100_snap read through a freed Connection
    snapOp,           \* the last web100_snap: the data file it met, what it
                      \* returned, web100_errno as it left it, and its FILE
    wildFree,         \* refresh_connections passed a junk pointer to free
    \* ---- correlation query (connection_info.c) ----
    proc_net_tcp,     \* lines of /proc/net/tcp
    proc_net_tcp6,    \* lines of /proc/net/tcp6
    proc,             \* entries of /proc in readdir order
    procOpen,         \* whether opendir("/proc") succeeds
    agentGroups,      \* the attached agent's groups as the query sees them
    res,              \* the static list of connection_info_head
    info_ret,         \* the list connection_info_head last returned
    infoHeap,         \* addresses of the live result records
    doubleFree,       \* a result record was freed twice
    cid_data,         \* Source A as built by the last query (line 183)
    tcp_head,         \* Source B as built by the last query (line 240)
    fd_head,          \* Source C as built by the last query (line 293)
    infoOp,           \* outcome of the last query
    \* ---- header parse (attach) ----
    header,           \* contents of WEB100_HEADER_FILE
    agentJunk,        \* bytes malloc left in agent->info.local.group_head
    att,              \* state of the attach attempt and what it left behind
    \* ---- web100_delta_any ----
    delta             \* the arguments of a web100_delta_any call and its outcome

vars == <<dir, rootOpen, connection_head, headState, web100_errno, conn_ret,
          lastOp, snap, snapReadFreed, snapOp, wildFree,
          proc_net_tcp, proc_net_tcp6, proc, procOpen, agentGroups,
          res, info_ret, infoHeap, doubleFree, cid_data, tcp_head, fd_head,
          infoOp, header, agentJunk, att, delta>>

catalogVars == <<dir, rootOpen, connection_head, headState, conn_ret, lastOp>>
snapVars    == <<snap, snapReadFreed, snapOp>>
infoVars    == <<proc_net_tcp, proc_net_tcp6, proc, procOpen, agentGroups,
                 res, info_ret, infoHeap, doubleFree, cid_data, tcp_head,
                 fd_head, infoOp>>
attachVars  == <<header, agentJunk, att>>
deltaVars   == <<delta>>

-----------------------------------------------------------------------------
(* Bounds of the model. *)

\* most entries in the instrumentation root directory
MaxDir == 2
\* most lines in /proc/net/tcp
MaxTcp == 2
\* most process entries in /proc
MaxProc == 2
\* most items (group or variable records) in the header file
MaxItems == 3

NULL == "NULL"

\* All sequences over S of length at most n.
SeqUpTo(S, n) == UNION {[1..k -> S] : k \in 0..n}

\* A directory holds no two entries of the same name.
Distinct(s) == \A i, j \in DOMAIN s : i # j => s[i] # s[j]

DistinctNames(s) ==
    \A i, j \in 1..Len(s) : i # j => s[i].d_name # s[j].d_name

-----------------------------------------------------------------------------
(* Error codes (web100_sys_errlist, web100.c:41-50, and those used by      *)
(* connection_info.c).                                                     *)

WEB100_ERR_SUCCESS      == "WEB100_ERR_SUCCESS"
WEB100_ERR_SYS          == "WEB100_ERR_SYS"
WEB100_ERR_AGENT_TYPE   == "WEB100_ERR_AGENT_TYPE"
WEB100_ERR_NOMEM        == "WEB100_ERR_NOMEM"
WEB100_ERR_NOCONNECTION == "WEB100_ERR_NOCONNECTION"
WEB100_ERR_INVAL        == "WEB100_ERR_INVAL"
WEB100_ERR_HEADER       == "WEB100_ERR_HEADER"
WEB100_ERR_NOVAR        == "WEB100_ERR_NOVAR"
WEB100_ERR_NOGROUP      == "WEB100_ERR_NOGROUP"
WEB100_ERR_FILE         == "WEB100_ERR_FILE"

-----------------------------------------------------------------------------
(* atoi(3) on a name given as a sequence of one-character strings.         *)

isspace(c) == c \in {" ", "\t"}
isdigit(c) == c \in {"0", "1", "2", "3", "4", "5", "6", "7", "8", "9"}

DigitVal(c) ==
    CASE c = "0" -> 0 [] c = "1" -> 1 [] c = "2" -> 2 [] c = "3" -> 3
      [] c = "4" -> 4 [] c = "5" -> 5 [] c = "6" -> 6 [] c = "7" -> 7
      [] c = "8" -> 8 [] c = "9" -> 9

RECURSIVE SkipSpace(_, _)
SkipSpace(s, i) ==
    IF i <= Len(s) /\ isspace(s[i]) THEN SkipSpace(s, i + 1) ELSE i

RECURSIVE AtoiDigits(_, _, _)
AtoiDigits(s, i, acc) ==
    IF i <= Len(s) /\ isdigit(s[i])
    THEN AtoiDigits(s, i + 1, acc * 10 + DigitVal(s[i]))
    ELSE acc

atoi(s) ==
    LET i   == SkipSpace(s, 1)
        neg == i <= Len(s) /\ s[i] = "-"
        j   == IF i <= Len(s) /\ s[i] \in {"-", "+"} THEN i + 1 ELSE i
        v   == AtoiDigits(s, j, 0)
    IN  IF neg THEN 0 - v ELSE v

-----------------------------------------------------------------------------
(* The instrumentation root directory.                                     *)

\* struct web100_connection_spec
ConnSpec(dp, da, sp, sa) ==
    [dst_port |-> dp, dst_addr |-> da, src_port |-> sp, src_addr |-> sa]

T1 == ConnSpec(80, 1, 4000, 2)
T2 == ConnSpec(80, 1, 4001, 2)
T3 == ConnSpec(22, 3, 4000, 2)

\* The contents of a spec field nothing was read into.
Unread == ConnSpec(-1, -1, -1, -1)

WEB100_ADDRTYPE_IPV4 == "IPV4"
WEB100_ADDRTYPE_IPV6 == "IPV6"

\* One directory entry: its name, its spec file ("ok" with the record it
\* holds, "short", or "missing"), and what the files of the "read" group give
\* for it: whether they can be read, the LocalAddressType value, the tuple
\* held by the address/port variables, and the bytes malloc left in the part
\* of the query's record that the reads do not write.
Ent(name, specst, spect, livest, at, lt, junk) ==
    [d_name |-> name, spec |-> specst, rec |-> spect,
     live |-> livest, addrtype |-> at, tuple |-> lt, junk |-> junk]

\* Entries the catalog specification draws from.
CatalogEntries ==
    { Ent(<<"1">>, "ok",      T1, "ok", WEB100_ADDRTYPE_IPV4, T1, T1),
      Ent(<<"2">>, "ok",      T2, "ok", WEB100_ADDRTYPE_IPV4, T2, T1),
      Ent(<<"3">>, "short",   T3, "ok", WEB100_ADDRTYPE_IPV4, T3, T1),
      Ent(<<"3">>, "missing", T3, "ok", WEB100_ADDRTYPE_IPV4, T3, T1),
      Ent(<<"h">>, "missing", T3, "ok", WEB100_ADDRTYPE_IPV4, T3, T1) }

\* Entries the snapshot specification draws from.
SnapEntries ==
    { Ent(<<"1">>, "ok", T1, "ok", WEB100_ADDRTYPE_IPV4, T1, T1),
      Ent(<<"2">>, "ok", T2, "ok", WEB100_ADDRTYPE_IPV4, T2, T1) }

DirsOver(E) == {d \in SeqUpTo(E, MaxDir) : DistinctNames(d)}

-----------------------------------------------------------------------------
(* refresh_connections (web100.c:210-271).                                 *)

\* web100.c:235-237: the entries the scan makes a Connection for.
Qualifies(ent) ==
    ~(atoi(ent.d_name) = 0 /\ ent.d_name[1] # "0")

\* struct web100_connection, as linked at web100.c:241-244; specRead says
\* whether the four fread calls of lines 255-258 filled its spec.
Connection(cid, spec, read) == [cid |-> cid, spec |-> spec, specRead |-> read]

\* The readdir loop, web100.c:232-265.  nalloc counts the malloc calls made,
\* oomAt is the call that returns NULL (0: none does).
RECURSIVE ScanDir(_, _, _, _)
ScanDir(ents, head, nalloc, oomAt) ==
    IF ents = <<>> THEN [err |-> WEB100_ERR_SUCCESS, head |-> head]
    ELSE
      LET ent == Head(ents)
          cid == atoi(ent.d_name)
      IN  IF ~Qualifies(ent) THEN ScanDir(Tail(ents), head, nalloc, oomAt)
          ELSE IF nalloc + 1 = oomAt
          THEN [err |-> WEB100_ERR_NOMEM, head |-> head]
          ELSE IF ent.spec # "ok"
          THEN [err |-> WEB100_ERR_SYS,
                head |-> <<Connection(cid, Unread, FALSE)>> \o head]
          ELSE ScanDir(Tail(ents),
                       <<Connection(cid, ent.rec, TRUE)>> \o head,
                       nalloc + 1, oomAt)

\* refresh_connections keeping the Connections of the previous scan.
refresh_connections_stale(d, open, oomAt) ==
    IF ~open THEN [err |-> WEB100_ERR_SYS, head |-> connection_head]
    ELSE ScanDir(d, connection_head, 0, oomAt)

\* The old list was freed and the head cleared (lines 219-225) before
\* anything that can fail.
refresh_connections(d, open, oomAt) ==
    IF ~open THEN [err |-> WEB100_ERR_SYS, head |-> <<>>]
    ELSE ScanDir(d, <<>>, 0, oomAt)

\* What a call can meet besides the directory contents: opendir failing
\* (line 227), or the k-th malloc of line 239 returning NULL.
Faults(d) ==
    {[open |-> FALSE, oomAt |-> 0]} \cup
    {[open |-> TRUE, oomAt |-> k] :
        k \in 0..Cardinality({i \in DOMAIN d : Qualifies(d[i])})}

\* What the free loop of lines 219-224 does with the head it finds: the
\* field was never assigned before the first call, so it walks and frees
\* whatever bytes malloc left there.
FreedJunk == headState = "junk"

\* A snapshot keeps the pointer it was given (web100.c:662); the Connection
\* it points at is freed by the loop of lines 219-224.
NoSnap == <<>>

AfterFree(s) == [i \in DOMAIN s |-> [s[i] EXCEPT !.dangling = TRUE]]

\* The part common to the three accessors: the call finds directory d.
Rescan(d, open, r) ==
    /\ dir' = d
    /\ rootOpen' = open
    /\ connection_head' = r.head
    /\ headState' = "set"
    /\ wildFree' = (wildFree \/ FreedJunk)
    /\ snap' = AfterFree(snap)
    /\ web100_errno' = r.err
    /\ UNCHANGED <<snapReadFreed, snapOp>>
    /\ UNCHANGED infoVars
    /\ UNCHANGED attachVars
    /\ UNCHANGED deltaVars

\* What web100_connection_head records about itself.
HeadOp(r) ==
    /\ conn_ret' = IF r.err # WEB100_ERR_SUCCESS \/ r.head = <<>>
                   THEN <<>> ELSE <<Head(r.head)>>
    /\ lastOp' = [op |-> "head", spec |-> Unread, cid |-> -1,
                  err |-> r.err,
                  freed |-> (connection_head # <<>>),
                  same |-> (r.head = connection_head)]

\* The search loop of web100_connection_find (web100.c:578-586).
RECURSIVE FindBySpec(_, _)
FindBySpec(list, spec) ==
    IF list = <<>> THEN <<>>
    ELSE LET cp == Head(list) IN
         IF /\ cp.spec.dst_port = spec.dst_port
            /\ cp.spec.dst_addr = spec.dst_addr
            /\ cp.spec.src_port = spec.src_port
            /\ cp.spec.src_addr = spec.src_addr
         THEN <<cp>>
         ELSE FindBySpec(Tail(list), spec)

\* The search loop of web100_connection_lookup (web100.c:610-615).
RECURSIVE LookupByCid(_, _)
LookupByCid(list, cid) ==
    IF list = <<>> THEN <<>>
    ELSE IF Head(list).cid = cid THEN <<Head(list)>>
    ELSE LookupByCid(Tail(list), cid)

\* web100_connection_head (web100.c:530-542)
web100_connection_head(D) ==
    \E d \in D : \E f \in Faults(d) :
      LET r == refresh_connections(d, f.open, f.oomAt) IN
        /\ Rescan(d, f.open, r)
        /\ HeadOp(r)

\* web100_connection_find (web100.c:564-589)
web100_connection_find(D) ==
    \E d \in D, spec \in {T1} : \E f \in Faults(d) :
      LET r == refresh_connections(d, f.open, f.oomAt) IN
        /\ Rescan(d, f.open, r)
        /\ conn_ret' = IF r.err # WEB100_ERR_SUCCESS THEN <<>>
                       ELSE FindBySpec(r.head, spec)
        /\ lastOp' = [op |-> "find", spec |-> spec, cid |-> -1,
                      err |-> r.err,
                      freed |-> (connection_head # <<>>),
                      same |-> (r.head = connection_head)]

\* web100_connection_lookup (web100.c:595-618)
web100_connection_lookup(D) ==
    \E d \in D, cid \in {1} : \E f \in Faults(d) :
      LET r == refresh_connections(d, f.open, f.oomAt) IN
        /\ Rescan(d, f.open, r)
        /\ conn_ret' = IF r.err # WEB100_ERR_SUCCESS THEN <<>>
                       ELSE LookupByCid(r.head, cid)
        /\ lastOp' = [op |-> "lookup", spec |-> Unread, cid |-> cid,
                      err |-> r.err,
                      freed |-> (connection_head # <<>>),
                      same |-> (r.head = connection_head)]

-----------------------------------------------------------------------------
(* Snapshots (web100.c:640-708).                                           *)

\* The group a snapshot is taken of.
ReadGroup == [name |-> "read", size |-> 4]

\* web100_snapshot_alloc (web100.c:640-665), called with a Connection of the
\* current list.  Group and connection belong to the one agent, so the
\* check of line 645 passes; either malloc may fail.
web100_snapshot_alloc ==
    /\ snap = NoSnap
    /\ \E i \in 1..Len(connection_head), oom \in BOOLEAN :
          IF oom
          THEN /\ web100_errno' = WEB100_ERR_NOMEM
               /\ UNCHANGED snap
          ELSE /\ snap' = <<[group |-> ReadGroup,
                             connection |-> connection_head[i],
                             dangling |-> FALSE]>>
               /\ UNCHANGED web100_errno
    /\ UNCHANGED <<snapReadFreed, snapOp, wildFree>>
    /\ UNCHANGED catalogVars
    /\ UNCHANGED infoVars
    /\ UNCHANGED attachVars
    /\ UNCHANGED deltaVars

\* web100_snapshot_free (web100.c:671-676)
web100_snapshot_free ==
    /\ snap # NoSnap
    /\ snap' = NoSnap
    /\ UNCHANGED <<snapReadFreed, snapOp, wildFree, web100_errno>>
    /\ UNCHANGED catalogVars
    /\ UNCHANGED infoVars
    /\ UNCHANGED attachVars
    /\ UNCHANGED deltaVars

\* web100_snap (web100.c:682-708).  Line 693 reads snap->connection->cid
\* through the stored pointer; file is what the data file named by that cid
\* and the group turns out to be.
web100_snap ==
    /\ snap # NoSnap
    /\ \E file \in {"ok", "short", "missing"} :
         /\ web100_errno' = IF file = "ok" THEN web100_errno
                            ELSE WEB100_ERR_NOCONNECTION
         /\ snapOp' = CASE file = "missing" ->
                              [ret |-> WEB100_ERR_NOCONNECTION, fp |-> "none",
                               file |-> file, errno |-> web100_errno']
                         [] file = "short" ->
                              [ret |-> WEB100_ERR_NOCONNECTION, fp |-> "open",
                               file |-> file, errno |-> web100_errno']
                         [] file = "ok" ->
                              [ret |-> WEB100_ERR_SUCCESS, fp |-> "closed",
                               file |-> file, errno |-> web100_errno']
    /\ snapReadFreed' = (snapReadFreed \/ snap[1].dangling)
    /\ UNCHANGED <<snap, wildFree>>
    /\ UNCHANGED catalogVars
    /\ UNCHANGED infoVars
    /\ UNCHANGED attachVars
    /\ UNCHANGED deltaVars

-----------------------------------------------------------------------------
(* The correlation query: the three sources (connection_info.c:120-294).   *)

ZeroSpec == ConnSpec(0, 0, 0, 0)

\* The variables of the agent's "read" group that the query looks up.  The
\* remote address and port go by the names the agent's version selects
\* (lines 139-145).
ReadVars == {"LocalAddressType", "LocalAddress", "RemAddress",
             "LocalPort", "RemPort"}

FullSchema   == [read |-> TRUE,  vars |-> ReadVars]
NoTypeSchema == [read |-> TRUE,  vars |-> ReadVars \ {"LocalAddressType"}]
NoReadSchema == [read |-> FALSE, vars |-> {}]

\* sprintf("%d") of a connection id, as in the file name of web100.c:730.
DigitChar(k) ==
    CASE k = 0 -> "0" [] k = 1 -> "1" [] k = 2 -> "2" [] k = 3 -> "3"
      [] k = 4 -> "4" [] k = 5 -> "5" [] k = 6 -> "6" [] k = 7 -> "7"
      [] k = 8 -> "8" [] k = 9 -> "9"

RECURSIVE DecimalDigits(_)
DecimalDigits(n) ==
    IF n < 10 THEN <<DigitChar(n)>>
    ELSE DecimalDigits(n \div 10) \o <<DigitChar(n % 10)>>

Decimal(n) == IF n < 0 THEN <<"-">> \o DecimalDigits(0 - n)
              ELSE DecimalDigits(n)

\* web100_raw_read (web100.c:714-751) of a variable of the "read" group for
\* connection cid in directory d: the error it returns and leaves in
\* web100_errno.
web100_raw_read(d, cid) ==
    LET hits == {i \in DOMAIN d : d[i].d_name = Decimal(cid)} IN
      IF hits = {} THEN WEB100_ERR_NOCONNECTION
      ELSE LET e == d[CHOOSE i \in hits : TRUE] IN
           CASE e.live = "ok"      -> WEB100_ERR_SUCCESS
             [] e.live = "missing" -> WEB100_ERR_NOCONNECTION
             [] e.live = "short"   -> WEB100_ERR_SYS

\* The values the "read" group's files hold for connection cid.
LiveOf(d, cid) == d[CHOOSE i \in DOMAIN d : d[i].d_name = Decimal(cid)]

\* One record of Source A (lines 128-180).  The record comes from malloc and
\* only the view selected by addrtype is written; the other view keeps the
\* bytes malloc left.
CidRecord(cid, at, e) ==
    [cid |-> cid, addrtype |-> at,
     spec    |-> IF at = WEB100_ADDRTYPE_IPV4 THEN e.tuple ELSE e.junk,
     spec_v6 |-> IF at = WEB100_ADDRTYPE_IPV4 THEN e.junk ELSE e.tuple]

\* web100_connection_next rescanning the catalog the way
\* web100_connection_head does.
web100_connection_next_rescanning(cps) == [next |-> Tail(cps), scans |-> 1]

\* web100_connection_next (web100.c:549-558) on the first Connection of
\* cps: the rest of the list, and the number of calls of
\* refresh_connections it made.
web100_connection_next(cps) == [next |-> Tail(cps), scans |-> 0]

\* The loop over the catalog, lines 124-183.  cps is the list
\* web100_connection_head returned, from the Connection cp points at; errno
\* the value of web100_errno; sc.scans the number of calls of
\* refresh_connections since the loop began and sc.stale whether the loop
\* has used a Connection after such a call freed it.
RECURSIVE CidLoop(_, _, _, _, _, _, _, _)
CidLoop(cps, d, schema, list, errno, nalloc, oomAt, sc0) ==
    IF cps = <<>>
    THEN [ret |-> WEB100_ERR_SUCCESS, errno |-> errno, list |-> list,
          nalloc |-> nalloc, sc |-> sc0]
    ELSE
      LET cp   == Head(cps)
          rd   == web100_raw_read(d, cp.cid)
          sc   == [sc0 EXCEPT !.stale = @ \/ sc0.scans > 0]
          nx   == web100_connection_next(cps)
          Fail(code, e) == [ret |-> code, errno |-> e, list |-> list,
                            nalloc |-> nalloc, sc |-> sc]
      IN
        IF nalloc + 1 = oomAt THEN Fail(WEB100_ERR_NOMEM, errno)
        ELSE IF ~schema.read
        THEN Fail(WEB100_ERR_NOGROUP, WEB100_ERR_SUCCESS)
        ELSE IF "LocalAddressType" \in schema.vars
                  /\ rd # WEB100_ERR_SUCCESS
        THEN Fail(rd, rd)
        ELSE IF "LocalAddress" \notin schema.vars
        THEN Fail(WEB100_ERR_FILE, WEB100_ERR_SUCCESS)
        ELSE IF rd # WEB100_ERR_SUCCESS
        THEN Fail(rd, rd)
        ELSE IF \E v \in {"RemAddress", "LocalPort", "RemPort"} :
                  v \notin schema.vars
        THEN Fail(WEB100_ERR_FILE, WEB100_ERR_SUCCESS)
        ELSE
          LET e  == LiveOf(d, cp.cid)
              at == IF "LocalAddressType" \in schema.vars
                    THEN e.addrtype ELSE WEB100_ADDRTYPE_IPV4
          IN  CidLoop(nx.next, d, schema,
                      <<CidRecord(cp.cid, at, e)>> \o list,
                      WEB100_ERR_SUCCESS, nalloc + 1, oomAt,
                      [sc EXCEPT !.scans = @ + nx.scans])

\* One line of /proc/net/tcp or /proc/net/tcp6: fields says how many of the
\* seven converted fields it holds in the layout the formats expect.
TcpLine(n, sa, sp, da, dp, st, uid, ino) ==
    [fields |-> n, src_addr |-> sa, src_port |-> sp, dst_addr |-> da,
     dst_port |-> dp, state |-> st, uid |-> uid, ino |-> ino]

\* sscanf with the format of line 198: the number of fields converted.
sscanf_tcp(line) == line.fields

\* sscanf with the format of line 223.  Its "%s" takes every character up to
\* the next white space, the ":port" included, so the ':' that follows in
\* the format never matches and at most one field is converted.
sscanf_tcp6(line) == IF line.fields >= 1 THEN 1 ELSE 0

\* A record of Source B (lines 198-208 and 223-233).  The four tuple fields
\* are stored through the spec member whatever the family; the join reads
\* the spec_v6 member of a record only when its addrtype is IPV6.
TcpRecord(line, at) ==
    [addrtype |-> at,
     spec     |-> ConnSpec(line.dst_port, line.dst_addr, line.src_port,
                           line.src_addr),
     spec_v6  |-> ConnSpec(line.dst_port, line.dst_addr, line.src_port,
                           line.src_addr),
     state |-> line.state, uid |-> line.uid, ino |-> line.ino]

\* The fgets loops of lines 192-212 (v6 = FALSE) and 217-237 (v6 = TRUE).
RECURSIVE TcpLoop(_, _, _, _, _)
TcpLoop(lines, v6, list, nalloc, oomAt) ==
    IF lines = <<>>
    THEN [ret |-> WEB100_ERR_SUCCESS, list |-> list, nalloc |-> nalloc]
    ELSE IF nalloc + 1 = oomAt
    THEN [ret |-> WEB100_ERR_NOMEM, list |-> list, nalloc |-> nalloc]
    ELSE
      LET line == Head(lines)
          scan == IF v6 THEN sscanf_tcp6(line) ELSE sscanf_tcp(line)
          at   == IF v6 THEN WEB100_ADDRTYPE_IPV6 ELSE WEB100_ADDRTYPE_IPV4
      IN  TcpLoop(Tail(lines), v6,
                  IF scan = 7 THEN <<TcpRecord(line, at)>> \o list ELSE list,
                  nalloc + 1, oomAt)

\* One entry of /proc: its name, whether its fd directory can be opened, its
\* descriptors (socket or not, with the inode), what reading the first line
\* of its status file gives ("ok" with the name, "nofile", "noline",
\* "noname"), and the bytes malloc leaves in a cmdline nothing is read into.
ProcEntry(name, fdOpen, fds, status, cmd, junk) ==
    [d_name |-> name, fdOpen |-> fdOpen, fds |-> fds, status |-> status,
     name |-> cmd, junk |-> junk]

Fd(sock, ino) == [sock |-> sock, ino |-> ino]

\* The inner readdir loop, lines 255-288: one record of Source C per socket
\* descriptor; cmdline is written only by the sscanf of line 282.
RECURSIVE FdLoop(_, _, _, _, _)
FdLoop(fds, p, list, nalloc, oomAt) ==
    IF fds = <<>>
    THEN [ret |-> WEB100_ERR_SUCCESS, list |-> list, nalloc |-> nalloc]
    ELSE IF ~Head(fds).sock THEN FdLoop(Tail(fds), p, list, nalloc, oomAt)
    ELSE IF nalloc + 1 = oomAt
    THEN [ret |-> WEB100_ERR_NOMEM, list |-> list, nalloc |-> nalloc]
    ELSE FdLoop(Tail(fds), p,
                <<[ino |-> Head(fds).ino, pid |-> atoi(p.d_name),
                   cmdline |-> IF p.status = "ok" THEN p.name ELSE p.junk]>>
                  \o list,
                nalloc + 1, oomAt)

\* The outer readdir loop, lines 250-292.
RECURSIVE ProcLoop(_, _, _, _)
ProcLoop(procs, list, nalloc, oomAt) ==
    IF procs = <<>>
    THEN [ret |-> WEB100_ERR_SUCCESS, list |-> list, nalloc |-> nalloc]
    ELSE
      LET p == Head(procs) IN
        IF atoi(p.d_name) = 0 \/ ~p.fdOpen
        THEN ProcLoop(Tail(procs), list, nalloc, oomAt)
        ELSE LET r == FdLoop(p.fds, p, list, nalloc, oomAt) IN
             IF r.ret # WEB100_ERR_SUCCESS THEN r
             ELSE ProcLoop(Tail(procs), r.list, r.nalloc, oomAt)

-----------------------------------------------------------------------------
(* The correlation query: the join (connection_info.c:298-381).            *)

\* The test of lines 302-311 on a Source-B record and a Source-A record.
Matches(tcp, cid) ==
    \/ /\ tcp.addrtype = WEB100_ADDRTYPE_IPV4
       /\ tcp.spec.dst_port = cid.spec.dst_port
       /\ tcp.spec.dst_addr = cid.spec.dst_addr
       /\ tcp.spec.src_port = cid.spec.src_port
    \/ /\ tcp.addrtype = WEB100_ADDRTYPE_IPV6
       /\ tcp.spec_v6.dst_port = cid.spec_v6.dst_port
       /\ tcp.spec_v6.dst_addr = cid.spec_v6.dst_addr
       /\ tcp.spec_v6.src_port = cid.spec_v6.src_port

\* A result record: bzero, then the assignments of lines 323-334, 344-355 or
\* 367-373.  The tuple is copied into the view addrtype selects.
Info(cid, pid, cmdline, uid, state) ==
    [cid |-> cid.cid, addrtype |-> cid.addrtype,
     spec    |-> IF cid.addrtype = WEB100_ADDRTYPE_IPV4
                 THEN cid.spec ELSE ZeroSpec,
     spec_v6 |-> IF cid.addrtype = WEB100_ADDRTYPE_IPV6
                 THEN cid.spec_v6 ELSE ZeroSpec,
     pid |-> pid, cmdline |-> cmdline, uid |-> uid, state |-> state]

\* WithHolder writing the socket's inode where the pid belongs.
WithHolderWrongPid(cid, tcp, fd) ==
    Info(cid, fd.ino, fd.cmdline, tcp.uid, tcp.state)

\* Lines 323-326: one record per holder of the socket.
WithHolder(cid, tcp, fd) == Info(cid, fd.pid, fd.cmdline, tcp.uid, tcp.state)

\* WithoutHolder leaving uid and state as bzero left them.
WithoutHolderNoUid(cid, tcp) == Info(cid, 0, "", 0, 0)

\* Lines 344-347: the socket is known, its holder is not.
WithoutHolder(cid, tcp) == Info(cid, 0, "", tcp.uid, tcp.state)

\* Lines 364-373: the connection has no socket any more.
Residual(cid) == Info(cid, 0, "", 0, 0)

\* The loop over Source C, lines 316-339: out is the result list so far,
\* found the value of fd_entry.
RECURSIVE HolderLoop(_, _, _, _, _)
HolderLoop(fds, cid, tcp, out, found) ==
    IF fds = <<>> THEN [out |-> out, found |-> found]
    ELSE IF Head(fds).ino = tcp.ino
    THEN HolderLoop(Tail(fds), cid, tcp,
                    <<WithHolder(cid, tcp, Head(fds))>> \o out, TRUE)
    ELSE HolderLoop(Tail(fds), cid, tcp, out, found)

\* The loop over Source B, lines 301-361: found is the value of tcp_entry.
RECURSIVE SocketLoop(_, _, _, _, _)
SocketLoop(tcps, cid, fds, out, found) ==
    IF tcps = <<>> THEN [out |-> out, found |-> found]
    ELSE IF Matches(Head(tcps), cid)
    THEN LET h == HolderLoop(fds, cid, Head(tcps), out, FALSE) IN
         SocketLoop(Tail(tcps), cid, fds,
                    IF h.found THEN h.out
                    ELSE <<WithoutHolder(cid, Head(tcps))>> \o out,
                    TRUE)
    ELSE SocketLoop(Tail(tcps), cid, fds, out, found)

\* The loop over Source A, lines 299-381.
RECURSIVE Collate(_, _, _, _)
Collate(cids, tcps, fds, out) ==
    IF cids = <<>> THEN out
    ELSE LET s == SocketLoop(tcps, Head(cids), fds, out, FALSE) IN
         Collate(Tail(cids), tcps, fds,
                 IF s.found THEN s.out
                 ELSE <<Residual(Head(cids))>> \o out)

-----------------------------------------------------------------------------
(* The correlation query: connection_info_refresh, _find and _head.        *)

\* connection_info_refresh (lines 96-398) on directory d for an agent with
\* the given schema; f says what fails: the two opendir calls, and which of
\* the checked malloc calls (lines 128, 193, 218, 262) returns NULL.
\* The result gives the value returned, web100_errno, the catalog left in the
\* agent, the three sources as far as they were built, and the result list.
connection_info_refresh(d, schema, tcp, tcp6, procs, f) ==
    LET cat == refresh_connections(d, f.rootOpen, 0)
        cps == IF cat.err = WEB100_ERR_SUCCESS THEN cat.head ELSE <<>>
        a   == CidLoop(cps, d, schema, <<>>, cat.err, 0, f.oomAt,
                       [scans |-> 0, stale |-> FALSE])
        b4  == TcpLoop(tcp, FALSE, <<>>, a.nalloc, f.oomAt)
        b6  == TcpLoop(tcp6, TRUE, b4.list, b4.nalloc, f.oomAt)
        c   == ProcLoop(procs, <<>>, b6.nalloc, f.oomAt)
        Out(ret, errno, A, B, C, out) ==
            [ret |-> ret, errno |-> errno, cat |-> cat, cid_data |-> A,
             tcp_head |-> B, fd_head |-> C, out |-> out,
             scans |-> 1 + a.sc.scans, stale |-> a.sc.stale]
    IN  IF a.ret # WEB100_ERR_SUCCESS
        THEN Out(a.ret, a.errno, a.list, <<>>, <<>>, <<>>)
        ELSE IF b4.ret # WEB100_ERR_SUCCESS
        THEN Out(b4.ret, WEB100_ERR_NOMEM, a.list, b4.list, <<>>, <<>>)
        ELSE IF b6.ret # WEB100_ERR_SUCCESS
        THEN Out(b6.ret, WEB100_ERR_NOMEM, a.list, b6.list, <<>>, <<>>)
        ELSE IF ~f.procOpen
        THEN Out(WEB100_ERR_FILE, WEB100_ERR_FILE, a.list, b6.list, <<>>,
                 <<>>)
        ELSE IF c.ret # WEB100_ERR_SUCCESS
        THEN Out(c.ret, WEB100_ERR_NOMEM, a.list, b6.list, c.list, <<>>)
        ELSE Out(WEB100_ERR_SUCCESS, a.errno, a.list, b6.list, c.list,
                 Collate(a.list, b6.list, c.list, <<>>))

\* malloc for a result record: an address not in use.
malloc(heap) ==
    CHOOSE a \in 1..(Cardinality(heap) + 1) :
        a \notin heap /\ \A b \in 1..(a - 1) : b \in heap

AddrsOf(list) == {list[i].addr : i \in DOMAIN list}

\* The result records at their addresses; the last of the list was
\* allocated first (lines 336-337, 357-358, 375-376 prepend).
RECURSIVE Place(_, _)
Place(infos, heap) ==
    IF infos = <<>> THEN <<>>
    ELSE LET rest == Place(Tail(infos), heap) IN
         <<[addr |-> malloc(heap \cup AddrsOf(rest)), info |-> Head(infos)]>>
           \o rest

\* The free loop of connection_info_head keeping all but the first record.
FreeListHeadOnly(list, heap) ==
    IF list = <<>> THEN [heap |-> heap, twice |-> FALSE]
    ELSE [heap |-> heap \ {Head(list).addr},
          twice |-> Head(list).addr \notin heap]

\* The free loop of connection_info_head, lines 21-28.
RECURSIVE FreeList(_, _)
FreeList(list, heap) ==
    IF list = <<>> THEN [heap |-> heap, twice |-> FALSE]
    ELSE LET rest == FreeList(Tail(list), heap \ {Head(list).addr}) IN
         [heap |-> rest.heap,
          twice |-> rest.twice \/ Head(list).addr \notin heap]

\* What one query can meet.
InfoFaults ==
    { [rootOpen |-> TRUE,  procOpen |-> TRUE,  oomAt |-> 0],
      [rootOpen |-> FALSE, procOpen |-> TRUE,  oomAt |-> 0],
      [rootOpen |-> TRUE,  procOpen |-> FALSE, oomAt |-> 0],
      [rootOpen |-> TRUE,  procOpen |-> TRUE,  oomAt |-> 1] }

\* connection_info_head (lines 16-33) with connection_info_find (82-94).
connection_info_head ==
    \E f \in InfoFaults :
    \E fr \in {FreeList(res, infoHeap)} :
    \E r \in {connection_info_refresh(dir, agentGroups, proc_net_tcp,
                                      proc_net_tcp6, proc, f)} :
    \E ok \in {r.ret = WEB100_ERR_SUCCESS} :
    \E new \in {IF ok THEN Place(r.out, fr.heap) ELSE <<>>} :
        /\ res' = new
        /\ info_ret' = new
        /\ infoHeap' = fr.heap \cup AddrsOf(new)
        /\ doubleFree' = (doubleFree \/ fr.twice)
        /\ cid_data' = r.cid_data
        /\ tcp_head' = r.tcp_head
        /\ fd_head' = r.fd_head
        /\ infoOp' = [called |-> TRUE, ret |-> r.ret, released |-> Len(res),
                      scans |-> r.scans, stale |-> r.stale,
                      err |-> IF ok THEN WEB100_ERR_SUCCESS ELSE r.errno]
        /\ web100_errno' = r.errno
        /\ procOpen' = f.procOpen
        /\ rootOpen' = f.rootOpen
        /\ connection_head' = r.cat.head
        /\ headState' = "set"
        /\ wildFree' = (wildFree \/ FreedJunk)
        /\ snap' = AfterFree(snap)
        /\ HeadOp(r.cat)
        /\ UNCHANGED <<dir, proc_net_tcp, proc_net_tcp6, proc, agentGroups>>
        /\ UNCHANGED <<snapReadFreed, snapOp>>
        /\ UNCHANGED attachVars
        /\ UNCHANGED deltaVars

-----------------------------------------------------------------------------
(* Attach: _web100_agent_attach_local (web100.c:95-207), web100_detach     *)
(* (351-384) and the enumeration of groups (390-439).                      *)

WEB100_TYPE_INTEGER32  == "WEB100_TYPE_INTEGER32"
WEB100_TYPE_COUNTER64  == "WEB100_TYPE_COUNTER64"
WEB100_TYPE_UNSIGNED16 == "WEB100_TYPE_UNSIGNED16"

\* size_from_type, lines 67-87; the default branch is what is left of it
\* when assert is compiled out.
size_from_type(type) ==
    CASE type \in {"WEB100_TYPE_INTEGER", WEB100_TYPE_INTEGER32,
                   "WEB100_TYPE_IP_ADDRESS", "WEB100_TYPE_COUNTER32",
                   "WEB100_TYPE_GAUGE32", "WEB100_TYPE_UNSIGNED32",
                   "WEB100_TYPE_TIME_TICKS"} -> 4
      [] type = WEB100_TYPE_COUNTER64 -> 8
      [] type = WEB100_TYPE_UNSIGNED16 -> 2
      [] OTHER -> 0

\* The header after its version line is a sequence of items: "/name" opens
\* a group (ok is FALSE when no name follows the slash), anything else is a
\* variable record "name offset type" (ok is FALSE when it is malformed).
GroupItem(name) ==
    [k |-> "group", name |-> name, offset |-> 0, type |-> "", ok |-> name # ""]

VarItem(name, offset, type, ok) ==
    [k |-> "var", name |-> name, offset |-> offset, type |-> type, ok |-> ok]

\* A group as malloc and lines 141-153 leave it.
Group(name) == [name |-> name, size |-> 0, nvars |-> 0, vars |-> <<>>]

NoGroup == Group("")

\* An allocated object, for the account of what is never freed.
Obj(k, name) == [k |-> k, name |-> name]

VarsAsObjs(g) == [i \in DOMAIN g.vars |-> Obj("var", g.vars[i].name)]

\* Lines 183-187: the variable is counted and linked at the head.
AddVar(g, it) ==
    [g EXCEPT !.size = @ + size_from_type(it.type),
              !.nvars = @ + 1,
              !.vars = <<[name |-> it.name, offset |-> it.offset,
                          type |-> it.type]>> \o @]

\* The parsing loop, lines 127-191.  st.gp tells what gp points at: nothing
\* ("null"), the group at the head of the agent's list ("linked"), a group
\* that is in no list ("unlinked", st.cur), or a freed group ("freed").
\* st.lost collects the objects no pointer leads to any more.  nalloc counts
\* the malloc calls made, the one numbered oomAt returns NULL.
RECURSIVE AttachLoop(_, _, _, _)
AttachLoop(items, st, nalloc, oomAt) ==
    IF items = <<>> THEN [st EXCEPT !.errno = WEB100_ERR_SUCCESS]
    ELSE LET it == Head(items) IN
      IF it.k = "group"
      THEN LET fr == IF st.gp = "unlinked"
                     THEN [st EXCEPT !.lost = @ \o VarsAsObjs(st.cur),
                                     !.cur = NoGroup, !.gp = "freed"]
                     ELSE st
           IN IF nalloc + 1 = oomAt
              THEN [fr EXCEPT !.errno = WEB100_ERR_NOMEM]
              ELSE IF ~it.ok
              THEN [fr EXCEPT !.errno = WEB100_ERR_HEADER,
                              !.gp = "unlinked", !.cur = NoGroup]
              ELSE IF it.name = "spec"
              THEN AttachLoop(Tail(items),
                              [fr EXCEPT !.gp = "unlinked",
                                         !.cur = Group(it.name),
                                         !.spec = TRUE],
                              nalloc + 1, oomAt)
              ELSE AttachLoop(Tail(items),
                              [fr EXCEPT !.gp = "linked", !.cur = NoGroup,
                                         !.groups = <<Group(it.name)>> \o @],
                              nalloc + 1, oomAt)
      ELSE IF st.gp = "null"
           THEN [st EXCEPT !.errno = WEB100_ERR_HEADER]
           ELSE IF nalloc + 1 = oomAt
           THEN [st EXCEPT !.errno = WEB100_ERR_NOMEM]
           ELSE IF ~it.ok
           THEN [st EXCEPT !.errno = WEB100_ERR_HEADER,
                           !.lost = @ \o <<Obj("var", it.name)>>]
           ELSE IF st.gp = "linked"
           THEN AttachLoop(Tail(items),
                           [st EXCEPT !.groups[1] = AddVar(@, it)],
                           nalloc + 1, oomAt)
           ELSE AttachLoop(Tail(items),
                           [st EXCEPT !.cur = AddVar(@, it)],
                           nalloc + 1, oomAt)

\* No header file.
NoHeader == [open |-> FALSE, version |-> FALSE, items |-> <<>>]

\* Locals and agent as lines 98-109 leave them.
AttachStart ==
    [gp |-> "null", cur |-> NoGroup, groups |-> <<>>, lost |-> <<>>,
     spec |-> FALSE, errno |-> WEB100_ERR_SUCCESS]

\* What is still allocated once web100_detach has walked the agent's lists:
\* the objects already lost and the group gp points at when it is in no list,
\* with its variables.
Unfreed(st) ==
    st.lost \o (IF st.gp = "unlinked"
                THEN <<Obj("group", st.cur.name)>> \o VarsAsObjs(st.cur)
                ELSE <<>>)

\* Pointers to groups: NULL, the i-th group of the agent's list, the group
\* named "spec" that is in no list, or an address holding no group.
Null == [k |-> "null", i |-> 0]
GroupPtr(i) == [k |-> "group", i |-> i]
SpecPtr == [k |-> "spec", i |-> 0]
Wild == [k |-> "wild", i |-> 0]

\* The values agent->info.local.group_head can hold after malloc (line 105):
\* zero, or an address left by an earlier owner of the block, at which this
\* attach may have put its "spec" group or the first group it linked.
Junk == {"null", "spec", "first", "wild"}

\* The pointer the last group of the list carries as its next (line 151
\* copies the never-written group_head into the first group linked).
TailPtr(junk, a) ==
    CASE junk = "null" -> Null
      [] junk = "spec" -> IF a.spec THEN SpecPtr ELSE Wild
      [] junk = "first" -> IF a.groups # <<>> THEN GroupPtr(Len(a.groups))
                           ELSE Wild
      [] OTHER -> Wild

\* The state of an agent nobody attached.
NoAgent ==
    [called |-> FALSE, agent |-> FALSE, errno |-> WEB100_ERR_SUCCESS,
     groups |-> <<>>, spec |-> FALSE, unfreed |-> <<>>,
     readUninit |-> FALSE, wild |-> FALSE,
     op |-> "none", cursor |-> Null, seen |-> <<>>, found |-> Null,
     vfound |-> 0]

\* web100_attach(WEB100_AGENT_TYPE_LOCAL): _web100_agent_attach_local with
\* its cleanup, on header file h.  The agent's malloc is call number 1.
web100_attach(H) ==
    /\ ~att.called
    /\ \E h \in H : \E junk \in Junk : \E cjunk \in {"zero", "junk"} :
       \E oomAt \in 0..(Len(h.items) + 1) :
         LET st == IF oomAt = 1
                   THEN [AttachStart EXCEPT !.errno = WEB100_ERR_NOMEM]
                   ELSE IF ~h.open \/ ~h.version
                   THEN [AttachStart EXCEPT !.errno = WEB100_ERR_HEADER]
                   ELSE AttachLoop(h.items, AttachStart, 1, oomAt)
             ok == st.errno = WEB100_ERR_SUCCESS
             detached == ~ok /\ oomAt # 1
         IN
           /\ header' = h
           /\ agentJunk' = junk
           /\ att' = [NoAgent EXCEPT
                        !.called = TRUE,
                        !.agent = ok,
                        !.errno = st.errno,
                        !.groups = IF ok THEN st.groups ELSE <<>>,
                        !.spec = st.spec,
                        !.unfreed = Unfreed(st),
                        !.readUninit = detached,
                        !.wild = detached /\
                                 (cjunk = "junk" \/
                                  TailPtr(junk, st).k # "null")]
           /\ web100_errno' = st.errno
           /\ headState' = cjunk
           /\ wildFree' = (wildFree \/ (detached /\ cjunk = "junk"))
           /\ connection_head' = <<>>
           /\ UNCHANGED <<dir, rootOpen, conn_ret, lastOp>>
           /\ UNCHANGED snapVars
           /\ UNCHANGED deltaVars
           /\ UNCHANGED <<proc_net_tcp, proc_net_tcp6, proc, procOpen,
                          agentGroups, res, info_ret, infoHeap, doubleFree,
                          cid_data, tcp_head, fd_head, infoOp>>

\* What the caller gets to see of a returned pointer.
Exposed(seen, ptr) == IF ptr.k = "null" THEN seen ELSE Append(seen, ptr)

\* gp->info.local.next for the group ptr points at.  The "spec" group is
\* linked nowhere and its next was never written (lines 146-152).
NextOf(ptr, junk, a) ==
    CASE ptr.k = "group" -> IF ptr.i < Len(a.groups)
                            THEN {GroupPtr(ptr.i + 1)}
                            ELSE {TailPtr(junk, a)}
      [] ptr.k = "spec" -> {Null, Wild}
      [] OTHER -> {}

EnumLeaves ==
    /\ UNCHANGED <<header, agentJunk>>
    /\ UNCHANGED catalogVars
    /\ UNCHANGED <<wildFree>>
    /\ UNCHANGED snapVars
    /\ UNCHANGED deltaVars
    /\ UNCHANGED <<proc_net_tcp, proc_net_tcp6, proc, procOpen,
                   agentGroups, res, info_ret, infoHeap, doubleFree,
                   cid_data, tcp_head, fd_head, infoOp>>

\* web100_group_head, lines 390-400.
web100_group_head ==
    /\ att.agent
    /\ LET ptr == IF att.groups # <<>> THEN GroupPtr(1)
                  ELSE TailPtr(agentJunk, att)
       IN att' = [att EXCEPT !.op = "head", !.cursor = ptr,
                             !.seen = Exposed(<<>>, ptr)]
    /\ web100_errno' = WEB100_ERR_SUCCESS
    /\ EnumLeaves

\* web100_group_next, lines 406-416, on the group last returned.
web100_group_next ==
    /\ att.agent
    /\ att.op \in {"head", "next"}
    /\ Len(att.seen) <= MaxItems
    /\ \E ptr \in NextOf(att.cursor, agentJunk, att) :
         att' = [att EXCEPT !.op = "next", !.cursor = ptr,
                            !.seen = Exposed(@, ptr)]
    /\ web100_errno' = WEB100_ERR_SUCCESS
    /\ EnumLeaves

\* The loop of web100_group_find, lines 432-436, from pointer ptr with fuel
\* steps left; the empty set when it does not come back within them.
RECURSIVE FindGroup(_, _, _, _, _)
FindGroup(ptr, name, junk, a, fuel) ==
    IF ptr.k \in {"null", "wild"} THEN {ptr}
    ELSE IF ptr.k = "spec" /\ name = "spec" THEN {ptr}
    ELSE IF ptr.k = "group" /\ a.groups[ptr.i].name = name THEN {ptr}
    ELSE IF fuel = 0 THEN {}
    ELSE UNION {FindGroup(q, name, junk, a, fuel - 1) :
                  q \in NextOf(ptr, junk, a)}

\* web100_group_find, lines 422-439.
web100_group_find ==
    /\ att.agent
    /\ \E name \in {"read", "spec"} :
       \E ptr \in FindGroup(IF att.groups # <<>> THEN GroupPtr(1)
                            ELSE TailPtr(agentJunk, att),
                            name, agentJunk, att, Len(att.groups) + 1) :
         att' = [att EXCEPT !.op = "find", !.found = ptr]
    /\ web100_errno' = WEB100_ERR_SUCCESS
    /\ EnumLeaves

\* The loop of web100_var_find, lines 492-497, over a group's list of
\* variables from its i-th one: the position of the first variable with the
\* name, 0 (NULL) when the list ends first.  The list ends in the NULL of
\* line 149.
RECURSIVE FindVar(_, _, _)
FindVar(list, name, i) ==
    IF i > Len(list) THEN 0
    ELSE IF list[i].name = name THEN i
    ELSE FindVar(list, name, i + 1)

\* web100_var_find, lines 479-498, in the group web100_group_find returned.
web100_var_find ==
    /\ att.agent
    /\ att.op = "find"
    /\ att.found.k = "group"
    /\ \E name \in {"a", "A"} :
         att' = [att EXCEPT
                   !.op = "vfind",
                   !.vfound = FindVar(att.groups[att.found.i].vars, name, 1)]
    /\ web100_errno' = WEB100_ERR_SUCCESS
    /\ EnumLeaves

-----------------------------------------------------------------------------
(* Deltas between snapshots: web100_snap_read (web100.c:800-812) and       *)
(* web100_delta_any (818-838).  Memory is a sequence of bytes.             *)

\* sizeof(unsigned long long), the type of v1, v2 and val (line 822).
LongLong == 8

\* A byte holds 0..255.
ByteMod == 256

\* The bytes of an integer object from the least significant one, given its
\* bytes in memory order, and back.
Reverse(s) == [i \in DOMAIN s |-> s[Len(s) + 1 - i]]

BySignificance(mem, endian) == IF endian = "little" THEN mem ELSE Reverse(mem)

\* a - b on unsigned integers of equal size given from the least
\* significant byte, with wraparound: the - of line 833.
RECURSIVE SubBytes(_, _, _)
SubBytes(a, b, borrow) ==
    IF a = <<>> THEN <<>>
    ELSE LET d == Head(a) - Head(b) - borrow IN
         <<d % ByteMod>> \o SubBytes(Tail(a), Tail(b), IF d < 0 THEN 1 ELSE 0)

\* memcpy(dst, src + at, n) on a destination holding old: the first n bytes
\* are replaced, the others stay.
memcpy(old, src, at, n) ==
    [i \in DOMAIN old |-> IF i <= n THEN src[at + i] ELSE old[i]]

\* web100_snap_read, lines 802-810: the value returned and the buffer.
web100_snap_read(var, sn, buf) ==
    IF var.group # sn.group
    THEN [ret |-> WEB100_ERR_INVAL, buf |-> buf]
    ELSE [ret |-> WEB100_ERR_SUCCESS,
          buf |-> memcpy(buf, sn.data, var.offset, size_from_type(var.type))]

\* web100_delta_any, lines 818-838.  v1 and v2 are locals nothing
\* initialises: junk1 and junk2 are the bytes they hold on entry.
delta_any(var, s1, s2, buf, junk1, junk2, endian) ==
    IF s1.group # s2.group
    THEN [ret |-> WEB100_ERR_INVAL, buf |-> buf]
    ELSE LET r1 == web100_snap_read(var, s1, junk1)
             r2 == web100_snap_read(var, s2, junk2)
         IN IF r1.ret # WEB100_ERR_SUCCESS \/ r2.ret # WEB100_ERR_SUCCESS
            THEN [ret |-> WEB100_ERR_INVAL, buf |-> buf]
            ELSE LET val == BySignificance(
                              SubBytes(BySignificance(r1.buf, endian),
                                       BySignificance(r2.buf, endian), 0),
                              endian)
                 IN [ret |-> WEB100_ERR_SUCCESS,
                     buf |-> memcpy(buf, val, 0, size_from_type(var.type))]

\* No call of web100_delta_any was made.
NoDelta ==
    [called |-> FALSE, endian |-> "little",
     var |-> [group |-> "read", offset |-> 0, type |-> WEB100_TYPE_INTEGER32],
     s1 |-> [group |-> "read", data |-> <<>>],
     s2 |-> [group |-> "read", data |-> <<>>],
     junk1 |-> <<>>, junk2 |-> <<>>, buf |-> <<>>,
     ret |-> WEB100_ERR_SUCCESS]

\* web100_delta_any(var, s1, s2, buf) on the arguments held in delta.
web100_delta_any ==
    /\ ~delta.called
    /\ delta.s1.data # <<>>
    /\ \E r \in {delta_any(delta.var, delta.s1, delta.s2, delta.buf,
                           delta.junk1, delta.junk2, delta.endian)} :
         /\ delta' = [delta EXCEPT !.called = TRUE, !.ret = r.ret,
                                   !.buf = r.buf]
         /\ web100_errno' = IF r.ret = WEB100_ERR_SUCCESS THEN web100_errno
                            ELSE WEB100_ERR_INVAL
    /\ UNCHANGED catalogVars
    /\ UNCHANGED <<wildFree>>
    /\ UNCHANGED snapVars
    /\ UNCHANGED infoVars
    /\ UNCHANGED attachVars

-----------------------------------------------------------------------------
(* Specifications of the catalog and of snapshots.                         *)

\* The catalog of an agent no accessor was called on yet: attach leaves
\* connection_head unassigned (web100.c:105-110), so it holds what malloc
\* left, which may or may not be zero.
InitCatalog ==
    /\ dir = <<>>
    /\ rootOpen = TRUE
    /\ connection_head = <<>>
    /\ headState \in {"zero", "junk"}
    /\ web100_errno = WEB100_ERR_SUCCESS
    /\ conn_ret = <<>>
    /\ lastOp = [op |-> "none", spec |-> Unread, cid |-> -1,
                 err |-> WEB100_ERR_SUCCESS, freed |-> FALSE, same |-> TRUE]
    /\ wildFree = FALSE

InitSnapshots ==
    /\ snap = NoSnap
    /\ snapReadFreed = FALSE
    /\ snapOp = [ret |-> WEB100_ERR_SUCCESS, fp |-> "none", file |-> "none",
                 errno |-> WEB100_ERR_SUCCESS]

\* No correlation query was made.
IdleInfo ==
    /\ proc_net_tcp = <<>>
    /\ proc_net_tcp6 = <<>>
    /\ proc = <<>>
    /\ procOpen = TRUE
    /\ agentGroups = FullSchema
    /\ res = <<>>
    /\ info_ret = <<>>
    /\ infoHeap = {}
    /\ doubleFree = FALSE
    /\ cid_data = <<>>
    /\ tcp_head = <<>>
    /\ fd_head = <<>>
    /\ infoOp = [called |-> FALSE, ret |-> WEB100_ERR_SUCCESS, released |-> 0,
                 scans |-> 0, stale |-> FALSE,
                 err |-> WEB100_ERR_SUCCESS]

\* The header parse is not under study.
IdleAttach ==
    /\ header = NoHeader
    /\ agentJunk = "null"
    /\ att = NoAgent

IdleDelta == delta = NoDelta

Init == InitCatalog /\ InitSnapshots /\ IdleInfo /\ IdleAttach /\ IdleDelta

CatalogDirs == DirsOver(CatalogEntries)

Next ==
    \/ web100_connection_head(CatalogDirs)
    \/ web100_connection_find(CatalogDirs)
    \/ web100_connection_lookup(CatalogDirs)

Spec == Init /\ [][Next]_vars

SnapDirs == DirsOver(SnapEntries)

NextSnap ==
    \/ web100_connection_head(SnapDirs)
    \/ web100_connection_find(SnapDirs)
    \/ web100_connection_lookup(SnapDirs)
    \/ web100_snapshot_alloc
    \/ web100_snapshot_free
    \/ web100_snap

SpecSnap == Init /\ [][NextSnap]_vars

-----------------------------------------------------------------------------
(* Claims about the catalog and snapshots.                                 *)

\* The Connection a scan makes for a directory entry.
ConnOf(ent) == Connection(atoi(ent.d_name), ent.rec, TRUE)

CountInList(list, c) == Cardinality({i \in DOMAIN list : list[i] = c})

CountInDir(d, c) ==
    Cardinality({i \in DOMAIN d : Qualifies(d[i]) /\ ConnOf(d[i]) = c})

Accessed == lastOp.op \in {"head", "find", "lookup"}

\* What a search of a freshly scanned directory d must return.
FreshAnswer(d) ==
    LET hits ==
          {i \in DOMAIN d :
             /\ Qualifies(d[i])
             /\ \/ lastOp.op = "head"
                \/ lastOp.op = "find" /\ d[i].rec = lastOp.spec
                \/ lastOp.op = "lookup" /\ atoi(d[i].d_name) = lastOp.cid}
    IN  IF hits = {} THEN conn_ret = <<>>
        ELSE /\ Len(conn_ret) = 1
             /\ \E i \in hits : conn_ret[1] = ConnOf(d[i])

\* C5: a snapshot allocated against a connection never reads through a
\* Connection record that a later catalog refresh has freed, whatever catalog
\* accessors run between web100_snapshot_alloc and web100_snap.
C5_SnapshotNeverReadsFreedConnection == ~snapReadFreed

\* C6: after a catalog access that failed, the agent's list is the complete
\* previous list or empty; it never holds a partially scanned list or a
\* Connection whose spec fields were not read.
C6_FailedRebuildLeavesNoPartialList ==
    (Accessed /\ lastOp.err # WEB100_ERR_SUCCESS) =>
        /\ connection_head = <<>> \/ lastOp.same
        /\ \A i \in DOMAIN connection_head : connection_head[i].specRead

\* C7: after a successful catalog access (head, find or lookup), the list
\* holds exactly one Connection per entry the scan accepts in the directory
\* as that access found it and nothing else, and what the access returned is
\* an answer about that directory.  (Which names the scan accepts is
\* Qualifies, the test of web100.c:235-237.)
C7_ListIsExactlyTheLastScan ==
    (Accessed /\ lastOp.err = WEB100_ERR_SUCCESS) =>
        /\ \A c \in {connection_head[i] : i \in DOMAIN connection_head}
                   \cup {ConnOf(dir[i]) : i \in DOMAIN dir} :
              CountInList(connection_head, c) = CountInDir(dir, c)
        /\ FreshAnswer(dir)

\* A successful lookup that freed a non-empty earlier list, left a different
\* one, and found its connection.
C7_Witness ==
    /\ lastOp.op = "lookup"
    /\ lastOp.err = WEB100_ERR_SUCCESS
    /\ lastOp.freed
    /\ ~lastOp.same
    /\ Len(connection_head) > 0
    /\ conn_ret # <<>>

-----------------------------------------------------------------------------
(* Specification of the correlation query.                                 *)

V6a == ConnSpec(80, 601, 4000, 602)

\* Connections the query draws from: an IPv4 one, an IPv6 one whose
\* record's unwritten IPv4 view holds the bytes of T1, and one whose files
\* vanish between the listing and the reads.
InfoEntries ==
    { Ent(<<"1">>, "ok", T1, "ok",      WEB100_ADDRTYPE_IPV4, T1,  T2),
      Ent(<<"6">>, "ok", T3, "ok",      WEB100_ADDRTYPE_IPV6, V6a, T1),
      Ent(<<"3">>, "ok", T3, "missing", WEB100_ADDRTYPE_IPV4, T3,  T1) }

\* Lines of /proc/net/tcp: two sockets with the tuple of T1, and the
\* table's heading line.
TcpLines ==
    { TcpLine(7, 2, 4000, 1, 80, 1, 1000, 123),
      TcpLine(7, 2, 4000, 1, 80, 6, 1001, 124),
      TcpLine(0, 0, 0, 0, 0, 0, 0, 0) }

\* The one line of /proc/net/tcp6.
Tcp6Lines == <<TcpLine(7, 602, 4000, 601, 80, 1, 1000, 126)>>

\* Processes: one holding socket 123, one holding 123 and 124 whose status
\* file cannot be opened (the unwritten cmdline buffer holding text, or a
\* NUL first), one whose fd directory cannot be opened.
ProcEntries ==
    { ProcEntry(<<"4", "2">>, TRUE, <<Fd(TRUE, 123)>>, "ok", "curl", "?"),
      ProcEntry(<<"4", "3">>, TRUE,
                <<Fd(FALSE, 9), Fd(TRUE, 123), Fd(TRUE, 124)>>,
                "nofile", "", "junk"),
      ProcEntry(<<"4", "3">>, TRUE,
                <<Fd(FALSE, 9), Fd(TRUE, 123), Fd(TRUE, 124)>>,
                "nofile", "", ""),
      ProcEntry(<<"4", "4">>, FALSE, <<Fd(TRUE, 124)>>, "ok", "sshd", "?") }

InitInfo ==
    /\ dir \in DirsOver(InfoEntries)
    /\ proc_net_tcp \in {t \in SeqUpTo(TcpLines, MaxTcp) : Distinct(t)}
    /\ proc_net_tcp6 = Tcp6Lines
    /\ proc \in {p \in SeqUpTo(ProcEntries, MaxProc) : DistinctNames(p)}
    /\ agentGroups \in {FullSchema, NoTypeSchema, NoReadSchema}
    /\ procOpen = TRUE
    /\ res = <<>>
    /\ info_ret = <<>>
    /\ infoHeap = {}
    /\ doubleFree = FALSE
    /\ cid_data = <<>>
    /\ tcp_head = <<>>
    /\ fd_head = <<>>
    /\ infoOp = [called |-> FALSE, ret |-> WEB100_ERR_SUCCESS, released |-> 0,
                 scans |-> 0, stale |-> FALSE,
                 err |-> WEB100_ERR_SUCCESS]
    /\ rootOpen = TRUE
    /\ connection_head = <<>>
    /\ headState = "zero"
    /\ web100_errno = WEB100_ERR_SUCCESS
    /\ conn_ret = <<>>
    /\ lastOp = [op |-> "none", spec |-> Unread, cid |-> -1,
                 err |-> WEB100_ERR_SUCCESS, freed |-> FALSE, same |-> TRUE]
    /\ wildFree = FALSE
    /\ InitSnapshots
    /\ IdleAttach
    /\ IdleDelta

NextInfo == connection_info_head

SpecInfo == InitInfo /\ [][NextInfo]_vars

-----------------------------------------------------------------------------
(* Claims about the correlation query.                                     *)

\* The join has run: the last query got as far as its result list.
Joined == infoOp.called /\ infoOp.ret = WEB100_ERR_SUCCESS

\* A socket-table record and a catalog record of one family with the same
\* destination address, destination port and source port.
SameFamilyAndTuple(tcp, cid) ==
    /\ tcp.addrtype = cid.addrtype
    /\ tcp.addrtype = WEB100_ADDRTYPE_IPV4 =>
         /\ tcp.spec.dst_addr = cid.spec.dst_addr
         /\ tcp.spec.dst_port = cid.spec.dst_port
         /\ tcp.spec.src_port = cid.spec.src_port
    /\ tcp.addrtype = WEB100_ADDRTYPE_IPV6 =>
         /\ tcp.spec_v6.dst_addr = cid.spec_v6.dst_addr
         /\ tcp.spec_v6.dst_port = cid.spec_v6.dst_port
         /\ tcp.spec_v6.src_port = cid.spec_v6.src_port

\* The result record carries the identity of catalog record a.
CarriesIdentity(ci, a) ==
    /\ ci.cid = a.cid
    /\ ci.addrtype = a.addrtype
    /\ a.addrtype = WEB100_ADDRTYPE_IPV4 => ci.spec = a.spec
    /\ a.addrtype = WEB100_ADDRTYPE_IPV6 => ci.spec_v6 = a.spec_v6

\* The result records made for catalog record a.
RecordsOf(a) == {k \in DOMAIN res : res[k].info.cid = a.cid}

\* The result records made for catalog record a and socket b.
RecordsOfPair(a, b) ==
    {k \in DOMAIN res : /\ CarriesIdentity(res[k].info, a)
                        /\ res[k].info.uid = b.uid
                        /\ res[k].info.state = b.state}

\* The Source-C records of socket b.
Holders(b) == {k \in DOMAIN fd_head : fd_head[k].ino = b.ino}

\* C1: a catalog connection that no socket-table entry of its family and
\* tuple matches appears in the result exactly once, with its own cid,
\* family and tuple, pid 0, uid 0, state 0 and an empty cmdline.
C1_UnmatchedConnectionGetsOneResidual ==
    Joined =>
      \A i \in DOMAIN cid_data :
        (\A j \in DOMAIN tcp_head :
            ~SameFamilyAndTuple(tcp_head[j], cid_data[i]))
        => /\ Cardinality(RecordsOf(cid_data[i])) = 1
           /\ \A k \in RecordsOf(cid_data[i]) :
                /\ CarriesIdentity(res[k].info, cid_data[i])
                /\ res[k].info.pid = 0
                /\ res[k].info.uid = 0
                /\ res[k].info.state = 0
                /\ res[k].info.cmdline = ""

\* C2: for a catalog connection and a socket-table entry matching it, the
\* result holds exactly one record per holder of the socket, each with the
\* connection's cid, family and tuple, the socket's state and uid, and that
\* holder's pid and cmdline: k holders give k records.
C2_OneRecordPerHolder ==
    Joined =>
      \A i \in DOMAIN cid_data : \A j \in DOMAIN tcp_head :
        (/\ SameFamilyAndTuple(tcp_head[j], cid_data[i])
         /\ Holders(tcp_head[j]) # {})
        => /\ Cardinality(RecordsOfPair(cid_data[i], tcp_head[j]))
                = Cardinality(Holders(tcp_head[j]))
           /\ \A h \in Holders(tcp_head[j]) :
                Cardinality({k \in RecordsOfPair(cid_data[i], tcp_head[j]) :
                               /\ res[k].info.pid = fd_head[h].pid
                               /\ res[k].info.cmdline = fd_head[h].cmdline})
                  = 1

\* A socket with two holders was joined to its connection.
C2_Witness ==
    /\ Joined
    /\ \E i \in DOMAIN cid_data : \E j \in DOMAIN tcp_head :
         /\ SameFamilyAndTuple(tcp_head[j], cid_data[i])
         /\ Cardinality(Holders(tcp_head[j])) = 2
         /\ Cardinality(RecordsOfPair(cid_data[i], tcp_head[j])) = 2

\* C3: for a catalog connection and a matching socket-table entry that no
\* process holds, the result has exactly one record for the pair, with the
\* socket's state and uid, pid 0 and an empty cmdline.
C3_OneRecordForUnheldSocket ==
    Joined =>
      \A i \in DOMAIN cid_data : \A j \in DOMAIN tcp_head :
        (/\ SameFamilyAndTuple(tcp_head[j], cid_data[i])
         /\ Holders(tcp_head[j]) = {})
        => /\ Cardinality(RecordsOfPair(cid_data[i], tcp_head[j])) = 1
           /\ \A k \in RecordsOfPair(cid_data[i], tcp_head[j]) :
                /\ res[k].info.pid = 0
                /\ res[k].info.cmdline = ""

\* A socket nobody holds was joined to its connection, next to one that a
\* process holds.
C3_Witness ==
    /\ Joined
    /\ fd_head # <<>>
    /\ \E i \in DOMAIN cid_data : \E j \in DOMAIN tcp_head :
         /\ SameFamilyAndTuple(tcp_head[j], cid_data[i])
         /\ Holders(tcp_head[j]) = {}
         /\ \E k \in RecordsOfPair(cid_data[i], tcp_head[j]) :
              res[k].info.uid # 0

\* C4: the join takes a socket-table entry for a match of a catalog record
\* only when both are of one family and agree on destination address,
\* destination port and source port.
C4_MatchOnlyWithinFamily ==
    Joined =>
      \A i \in DOMAIN cid_data : \A j \in DOMAIN tcp_head :
        Matches(tcp_head[j], cid_data[i])
          => SameFamilyAndTuple(tcp_head[j], cid_data[i])

\* C8: the records of the list the query returned are the only live ones,
\* none was freed twice, and a query whose rebuild failed returned NULL and
\* kept no list.
C8_OnlyTheLastListIsLive ==
    /\ ~doubleFree
    /\ infoHeap = AddrsOf(res)
    /\ Cardinality(infoHeap) = Len(res)
    /\ info_ret = res
    /\ (infoOp.called /\ infoOp.ret # WEB100_ERR_SUCCESS)
         => (info_ret = <<>> /\ res = <<>>)

\* A query released a list of several records and its rebuild failed.
C8_Witness ==
    /\ infoOp.called
    /\ infoOp.released >= 2
    /\ infoOp.ret # WEB100_ERR_SUCCESS
    /\ info_ret = <<>>
    /\ infoHeap = {}

-----------------------------------------------------------------------------
(* Specification of attach and of the enumeration of groups.               *)

Items ==
    { GroupItem("spec"), GroupItem("read"), GroupItem(""),
      VarItem("a", 0, WEB100_TYPE_INTEGER32, TRUE),
      VarItem("b", 4, WEB100_TYPE_COUNTER64, TRUE),
      VarItem("c", 12, WEB100_TYPE_UNSIGNED16, FALSE) }

Headers ==
    {NoHeader, [open |-> TRUE, version |-> FALSE, items |-> <<>>]}
      \cup {[open |-> TRUE, version |-> TRUE, items |-> it] :
              it \in SeqUpTo(Items, MaxItems)}

NextAttach ==
    \/ web100_attach(Headers)
    \/ web100_group_head
    \/ web100_group_next
    \/ web100_group_find
    \/ web100_var_find

SpecAttach == Init /\ [][NextAttach]_vars

-----------------------------------------------------------------------------
(* Claims about attach.                                                    *)

\* C9: an attach that fails returns NULL and leaves nothing allocated, and
\* its cleanup reads no list head that was never written and frees through
\* no such pointer.
C9_FailedAttachReleasesEverything ==
    (att.called /\ att.errno # WEB100_ERR_SUCCESS)
      => /\ ~att.agent
         /\ att.unfreed = <<>>
         /\ ~att.readUninit
         /\ ~att.wild

\* The positions in the header of the groups not named "spec".
OrdinaryAt == {i \in DOMAIN header.items :
                 /\ header.items[i].k = "group"
                 /\ header.items[i].name # "spec"}

\* The positions of the variables declared under the group at position i.
DeclaredUnder(i) ==
    {j \in DOMAIN header.items :
       /\ j > i
       /\ \A m \in (i + 1)..j : header.items[m].k = "var"}

RECURSIVE SumOfSizes(_)
SumOfSizes(J) ==
    IF J = {} THEN 0
    ELSE LET j == CHOOSE x \in J : TRUE IN
         size_from_type(header.items[j].type) + SumOfSizes(J \ {j})

\* The header position of the p-th group of the agent's list: the list is in
\* reverse order of declaration.
PositionOf(p) ==
    CHOOSE i \in OrdinaryAt :
        Cardinality({m \in OrdinaryAt : m > i}) = p - 1

\* C10: after a successful attach the agent's groups are the header's groups
\* other than "spec", each with the variables declared under it, their
\* number and the sum of their sizes; enumeration and lookup return only
\* these groups, each once, and enumeration returns all of them.
C10_OnlyOrdinaryGroupsEachOnce ==
    att.agent =>
      /\ Len(att.groups) = Cardinality(OrdinaryAt)
      /\ \A p \in DOMAIN att.groups :
           LET g == att.groups[p]
               J == DeclaredUnder(PositionOf(p))
           IN /\ g.name = header.items[PositionOf(p)].name
              /\ g.nvars = Cardinality(J)
              /\ Len(g.vars) = g.nvars
              /\ {g.vars[v].name : v \in DOMAIN g.vars}
                   = {header.items[j].name : j \in J}
              /\ g.size = SumOfSizes(J)
      /\ \A k \in DOMAIN att.seen : att.seen[k].k = "group"
      /\ Distinct(att.seen)
      /\ att.cursor.k \in {"null", "group"}
      /\ att.found.k \in {"null", "group"}
      /\ (att.op \in {"head", "next"} /\ att.cursor = Null)
           => Len(att.seen) = Len(att.groups)

-----------------------------------------------------------------------------
(* Specification of web100_delta_any.                                      *)

Fill(b, n) == [i \in 1..n |-> b]

\* An unsigned value of w bytes, from the least significant byte: a low
\* byte and w - 1 equal higher bytes.
Pattern(lo, hi, w) == <<lo>> \o Fill(hi, w - 1)

\* A snapshot of group g whose data holds the value at the offset, in the
\* host's byte order, between bytes of other variables.
Snapshot(g, offset, value, endian) ==
    [group |-> g,
     data |-> Fill(170, offset) \o BySignificance(value, endian) \o <<85>>]

DeltaTypes ==
    {WEB100_TYPE_UNSIGNED16, WEB100_TYPE_INTEGER32, WEB100_TYPE_COUNTER64}

DeltaInputs ==
    { [called |-> FALSE, endian |-> e,
       var |-> [group |-> "read", offset |-> off, type |-> t],
       s1 |-> Snapshot(g1, off, Pattern(lo1, hi1, size_from_type(t)), e),
       s2 |-> Snapshot(g2, off, Pattern(lo2, hi2, size_from_type(t)), e),
       junk1 |-> Fill(j1, LongLong), junk2 |-> Fill(j2, LongLong),
       buf |-> Fill(204, LongLong),
       ret |-> WEB100_ERR_SUCCESS] :
      e \in {"little", "big"}, off \in {0, 1}, t \in DeltaTypes,
      g1 \in {"read", "tune"}, g2 \in {"read", "tune"},
      lo1 \in {0, 1, 255}, hi1 \in {0, 255},
      lo2 \in {0, 1, 255}, hi2 \in {0, 255},
      j1 \in {0, 255}, j2 \in {0, 255} }

InitDelta ==
    /\ InitCatalog
    /\ InitSnapshots
    /\ IdleInfo
    /\ IdleAttach
    /\ delta \in DeltaInputs

NextDelta == web100_delta_any

SpecDelta == InitDelta /\ [][NextDelta]_vars

-----------------------------------------------------------------------------
(* Claims about web100_delta_any.                                          *)

\* a + b on unsigned integers of equal size given from the least
\* significant byte, the last carry dropped.
RECURSIVE AddBytes(_, _, _)
AddBytes(a, b, carry) ==
    IF a = <<>> THEN <<>>
    ELSE LET t == Head(a) + Head(b) + carry IN
         <<t % ByteMod>> \o AddBytes(Tail(a), Tail(b), t \div ByteMod)

\* The w-byte unsigned value at the variable's offset in snapshot sn, from
\* the least significant byte.
ValueIn(sn) ==
    BySignificance(SubSeq(sn.data, delta.var.offset + 1,
                          delta.var.offset + size_from_type(delta.var.type)),
                   delta.endian)

\* The w-byte unsigned value the call wrote, from the least significant
\* byte.
Written ==
    BySignificance(SubSeq(delta.buf, 1, size_from_type(delta.var.type)),
                   delta.endian)

\* C11: a successful web100_delta_any writes the w-byte value d with
\* d + value(s2) = value(s1) modulo 2^(8w), whatever the other bytes of the
\* snapshots and of the function's locals hold, also when value(s1) is the
\* smaller one.
C11_DeltaIsModularDifference ==
    (delta.called /\ delta.ret = WEB100_ERR_SUCCESS)
      => AddBytes(Written, ValueIn(delta.s2), 0) = ValueIn(delta.s1)

\* The same on a host that stores the least significant byte first.
C11_LittleEndianDeltaIsModularDifference ==
    delta.endian = "little" => C11_DeltaIsModularDifference

-----------------------------------------------------------------------------
(* Specification of the catalog scan over names of every kind.             *)

\* Names readdir can return for the root directory: decimal numbers, a
\* number followed by other characters, a negative number and a word.
NameEntries ==
    { Ent(name, "ok", T1, "ok", WEB100_ADDRTYPE_IPV4, T1, T1) :
        name \in { <<"7">>, <<"0">>, <<"1", "x">>, <<"-", "5">>, <<"h">> } }

NameDirs == DirsOver(NameEntries)

NextNames == web100_connection_head(NameDirs)

SpecNames == Init /\ [][NextNames]_vars

-----------------------------------------------------------------------------
(* Claims about the names the scan accepts.                                *)

\* A name that is a non-negative decimal integer: digits and nothing else.
IsDecimalName(name) ==
    /\ name # <<>>
    /\ \A i \in DOMAIN name : isdigit(name[i])

\* C12: after a scan that succeeded, the list holds one Connection for each
\* entry whose name is a non-negative decimal integer, and none for any
\* other entry.
C12_ConnectionIffDecimalName ==
    (lastOp.op = "head" /\ lastOp.err = WEB100_ERR_SUCCESS)
      => /\ Len(connection_head)
              = Cardinality({i \in DOMAIN dir : IsDecimalName(dir[i].d_name)})
         /\ \A i \in DOMAIN dir :
              IsDecimalName(dir[i].d_name)
                => \E k \in DOMAIN connection_head :
                     connection_head[k].cid = atoi(dir[i].d_name)
         /\ \A k \in DOMAIN connection_head :
              \E i \in DOMAIN dir :
                /\ IsDecimalName(dir[i].d_name)
                /\ connection_head[k].cid = atoi(dir[i].d_name)

-----------------------------------------------------------------------------
(* Claims about failures inside the correlation query.                     *)

\* C13: a correlation query whose catalog scan failed does not return
\* success: it reports an error and no list.
C13_FailedScanAbortsQuery ==
    (infoOp.called /\ lastOp.err # WEB100_ERR_SUCCESS)
      => infoOp.ret # WEB100_ERR_SUCCESS

-----------------------------------------------------------------------------
(* Claims about the variables' offsets.                                    *)

\* C14: in every group a successful attach built, each variable lies within
\* the group's size: its offset is not negative and its offset plus the size
\* of its type is at most the group's size.
C14_VariablesLieWithinGroup ==
    att.agent =>
      \A p \in DOMAIN att.groups :
        \A v \in DOMAIN att.groups[p].vars :
          /\ att.groups[p].vars[v].offset >= 0
          /\ att.groups[p].vars[v].offset
               + size_from_type(att.groups[p].vars[v].type)
               <= att.groups[p].size

\* The same when the header declares each group's variables one after the
\* other from offset 0.
C14_PackedHeaderLiesWithinGroup ==
    (\A i \in DOMAIN header.items :
        header.items[i].k = "var" =>
          header.items[i].offset
            = (IF i > 1 /\ header.items[i - 1].k = "var"
               THEN header.items[i - 1].offset
                      + size_from_type(header.items[i - 1].type)
               ELSE 0))
      => C14_VariablesLieWithinGroup

-----------------------------------------------------------------------------
(* Claims about the command name.                                          *)

\* C15: a result record made for a process whose command name could not be
\* read (no status file, no first line, no Name field) has an empty cmdline.
C15_UnresolvedNameIsEmpty ==
    Joined =>
      \A k \in DOMAIN res : \A i \in DOMAIN proc :
        (/\ res[k].info.pid # 0
         /\ res[k].info.pid = atoi(proc[i].d_name)
         /\ proc[i].status # "ok")
        => res[k].info.cmdline = ""

-----------------------------------------------------------------------------
(* Claims about lookups by name.                                           *)

\* C16: when web100_group_find or web100_var_find finds nothing of the
\* given name and returns NULL, web100_errno is left at an error code, not
\* at success.
C16_NotFoundIsAnError ==
    /\ (att.op = "find" /\ att.found = Null)
         => web100_errno # WEB100_ERR_SUCCESS
    /\ (att.op = "vfind" /\ att.vfound = 0)
         => web100_errno # WEB100_ERR_SUCCESS

-----------------------------------------------------------------------------
(* Claims about web100_snap.                                               *)

\* C17: a web100_snap that finds the data file gone or shorter than the
\* group returns the NoConnection error and leaves web100_errno at it, and
\* whatever a web100_snap returns, the file it opened is closed.
C17_SnapReportsAndCloses ==
    /\ snapOp.file \in {"missing", "short"}
         => /\ snapOp.ret = WEB100_ERR_NOCONNECTION
            /\ snapOp.errno = WEB100_ERR_NOCONNECTION
    /\ snapOp.fp # "open"

\* The part of the claim about what is reported.
C17_SnapReports ==
    snapOp.file \in {"missing", "short"}
      => /\ snapOp.ret = WEB100_ERR_NOCONNECTION
         /\ snapOp.errno = WEB100_ERR_NOCONNECTION

-----------------------------------------------------------------------------
(* Claims about rescans inside the correlation query.                      *)

=============================================================================
